---- MODULE Spec2Model ----
(***************************************************************************)
(* Model of the device-update multiplexer of the service framework         *)
(* (src/service.go): StartDeviceUpdates, StopDeviceUpdates, the three      *)
(* subscription callbacks, the buffered channel s.updates and its          *)
(* consumer.                                                               *)
(*                                                                         *)
(* The caller's goroutine is modelled by pc; every blocking broker call    *)
(* (Subscribe, Unsubscribe: token.Wait()) ends a step. Each topic has one  *)
(* delivery position cb[t]: the broker client invokes the handlers of one  *)
(* topic one after another, and the handlers of different topics in any    *)
(* interleaving. A Go run-time panic is recorded in fault and stops the    *)
(* process: no action is enabled afterwards.                               *)
(*                                                                         *)
(* The second part models the session itself: the REST client of the       *)
(* platform (src/unnamed/part_000), StartService with its descriptor fetch *)
(* and broker connect, genClientID, FetchDeviceConfigs and StopService.    *)
(***************************************************************************)
EXTENDS Integers, Sequences, FiniteSets, TLC

\* src/service.go:20
deviceUpdatesBuffering == 10

\* src/service.go:34-38 (iota)
DeviceUpdateTypeAdd == 0
DeviceUpdateTypeRem == 1
DeviceUpdateTypeUpd == 2

\* Bounds of the model.
MaxStarts == 1     \* calls of StartDeviceUpdates (one channel is made per call)
MaxMsgs == 1       \* well-formed payloads the broker delivers in all (Spec)
MaxBurst == 1      \* payloads beyond a full channel on /thing/new, and on the other topics (BurstSpec)
MaxStops == 2      \* calls of StopService on one Service (ServiceSpec)
MaxDevices == 1    \* entries of the longest device list the platform answers with (ServiceSpec)

\* src/service.go:113-115
topicAdd == "thing/new"
topicRem == "thing/remove"
topicUpd == "thing/update"
Topics == {topicAdd, topicRem, topicUpd}

\* The update-kind each callback tags its entries with (lines 125, 142, 160).
TypeOfCopied(t) == DeviceUpdateTypeAdd
TypeOf(t) ==
    IF t = topicAdd THEN DeviceUpdateTypeAdd
    ELSE IF t = topicRem THEN DeviceUpdateTypeRem
    ELSE DeviceUpdateTypeUpd


NoChan == 0                      \* the nil channel
NoErr == "nil"
SubscribeError == "SubscribeError"
NoFault == "none"
NoLog == <<>>

VARIABLES
    pc,          \* position of the caller's goroutine
    updates,     \* s.updates: NoChan or the id of a channel
    nchans,      \* channels made so far (ids 1..nchans)
    chanBuf,     \* chanBuf[c]: the buffered entries of channel c
    closes,      \* closes[c]: close() calls made on channel c
    subscribed,  \* subscribed[t]: the broker routes topic t to its handler
    err,         \* the local err of StartDeviceUpdates; at start_ret, the error returned
    subLog,      \* Subscribe calls of the running/last start: <<topic, ok>>
    unsubLog,    \* Unsubscribe calls of the running/last operation: topics
    handle,      \* the channel the last StartDeviceUpdates returned to the consumer
    cb,          \* cb[t]: topic t's handler: idle, or at its send of msg on ch
    delivered,   \* delivered[t]: well-formed payloads delivered on topic t
    log,         \* the last line of s.log: <<topic, n>> of the payload that failed to decode
    recv,        \* result of the consumer's last receive
    stopActive,  \* the running/last StopDeviceUpdates was called while Active
    fault,       \* NoFault or the run-time panic that ended the process
    spc,         \* position of the caller of StartService / StopService
    sid,         \* s.id: the service ID StartService was called with
    node,        \* s.node: the descriptor fetched at start
    rnd,         \* r of genClientID: the number drawn for the last client ID
    clientID,    \* the client ID set in the broker options
    calls,       \* calls out of the running/last StartService, in order
    sres,        \* what the last StartService returned: a Service or not, and the error
    connected,   \* the broker connection of the Service is held
    disconnects, \* s.mqtt.Disconnect calls made on the Service
    rest         \* the last REST operation: its response and what it returned

muxVars == <<pc, updates, nchans, chanBuf, closes, subscribed, err, subLog,
             unsubLog, stopActive, handle, cb, delivered, log, recv, fault>>
svcVars == <<spc, sid, node, rnd, clientID, calls, sres, connected,
             disconnects, rest>>
vars == <<pc, updates, nchans, chanBuf, closes, subscribed, err, subLog,
          unsubLog, stopActive, handle, cb, delivered, log, recv, fault,
          spc, sid, node, rnd, clientID, calls, sres, connected,
          disconnects, rest>>

Chans == 1..MaxStarts
Callable == {"idle", "start_ret", "stop_ret"}
NoMsg == [Type |-> -1, Thing |-> 0]
IdleCb == [pc |-> "idle", ch |-> NoChan, msg |-> NoMsg]

Closed(c) == closes[c] >= 1

----------------------------------------------------------------------------
(* REST client of the platform (src/unnamed/part_000, lines 109-242).      *)

\* The OK status the four operations compare resp.StatusCode with.
httpStatusCodeOK == 200

\* src/service.go:62: big.NewInt(100000), the exclusive upper limit of r
clientIDRange == 100000

ServiceIDs == {"svcA", "svcB"}
NoField == "<absent>"            \* the JSON object has no "id" member
TransportError == "TransportError"
DecodeError == "DecodeError"
ConnectError == "ConnectError"

\* Go values: a ServiceNode (its ID; "" in the zero value) and a slice of
\* ServiceDeviceListItem, which is nil or a sequence.
ZeroNode == [ID |-> ""]
NilSlice == [isNil |-> TRUE, items |-> <<>>]
MakeSlice == [isNil |-> FALSE, items |-> <<>>]

\* Response bodies: not JSON, the JSON null, a JSON object with or without
\* an "id" member, a JSON array of n device entries.
Body(kind, id, n) == [kind |-> kind, id |-> id, n |-> n]
Bodies ==
    {Body("malformed", NoField, 0), Body("null", NoField, 0)}
    \cup {Body("object", i, 0) : i \in ServiceIDs \cup {NoField}}
    \cup {Body("array", NoField, n) : n \in 0..MaxDevices}

\* resp.StatusCode and resp.Status of the responses the platform gives.
Statuses ==
    {[StatusCode |-> httpStatusCodeOK, Status |-> "200 OK"],
     [StatusCode |-> 201, Status |-> "201 Created"],
     [StatusCode |-> 404, Status |-> "404 Not Found"]}

\* What host.client.Do gives: an error (sent = FALSE) or a response.
NoResponse ==
    [sent |-> FALSE, StatusCode |-> 0, Status |-> "", Body |-> Body("malformed", NoField, 0)]
Response(st, b) ==
    [sent |-> TRUE, StatusCode |-> st.StatusCode, Status |-> st.Status, Body |-> b]
Responses == {NoResponse} \cup {Response(st, b) : st \in Statuses, b \in Bodies}

\* json.NewDecoder(resp.Body).Decode(&serviceNode): a JSON object sets the
\* members it has, the JSON null leaves the struct as it is, anything else is
\* an error.
DecodeNode(n, b) ==
    CASE b.kind = "object" ->
            [val |-> IF b.id = NoField THEN n ELSE [ID |-> b.id], err |-> NoErr]
      [] b.kind = "null" -> [val |-> n, err |-> NoErr]
      [] OTHER -> [val |-> n, err |-> DecodeError]

\* json.NewDecoder(resp.Body).Decode(&serviceDeviceListItems): a JSON array
\* gives a slice of its entries (empty, not nil, for []), the JSON null sets
\* the slice to nil, anything else is an error.
DecodeList(l, b) ==
    CASE b.kind = "array" ->
            [val |-> [isNil |-> FALSE, items |-> [i \in 1..b.n |-> i]], err |-> NoErr]
      [] b.kind = "null" -> [val |-> NilSlice, err |-> NoErr]
      [] OTHER -> [val |-> l, err |-> DecodeError]

\* lines 125, 149, 193, 238: resp.StatusCode != httpStatusCodeOK
StatusIgnored(resp) == TRUE
StatusOK(resp) == resp.StatusCode = httpStatusCodeOK

\* lines 109-130
RequestServiceInfo(serviceid, resp) ==
    IF ~resp.sent
    THEN [node |-> ZeroNode, err |-> TransportError, decoded |-> FALSE]
    ELSE IF ~StatusOK(resp)
    THEN [node |-> ZeroNode, err |-> resp.Status, decoded |-> FALSE]
    ELSE LET d == DecodeNode(ZeroNode, resp.Body)
         IN  [node |-> d.val, err |-> d.err, decoded |-> TRUE]

\* lines 133-154
RequestServiceDeviceList(serviceid, resp) ==
    IF ~resp.sent
    THEN [list |-> MakeSlice, err |-> TransportError, decoded |-> FALSE]
    ELSE IF ~StatusOK(resp)
    THEN [list |-> MakeSlice, err |-> resp.Status, decoded |-> FALSE]
    ELSE LET d == DecodeList(MakeSlice, resp.Body)
         IN  [list |-> d.val, err |-> d.err, decoded |-> TRUE]

\* lines 158-220: the body is decoded into hackServiceNode and copied
ServiceCreate(request, resp) ==
    IF ~resp.sent
    THEN [node |-> ZeroNode, err |-> TransportError, decoded |-> FALSE]
    ELSE IF ~StatusOK(resp)
    THEN [node |-> ZeroNode, err |-> resp.Status, decoded |-> FALSE]
    ELSE LET hackServiceNode == DecodeNode(ZeroNode, resp.Body)
         IN  [node |-> [ID |-> hackServiceNode.val.ID],
              err |-> hackServiceNode.err, decoded |-> TRUE]

\* lines 224-242
ServiceDelete(serviceid, resp) ==
    IF ~resp.sent
    THEN [err |-> TransportError, decoded |-> FALSE]
    ELSE IF ~StatusOK(resp)
    THEN [err |-> resp.Status, decoded |-> FALSE]
    ELSE [err |-> NoErr, decoded |-> FALSE]

HostOps == {"RequestServiceInfo", "RequestServiceDeviceList", "ServiceCreate", "ServiceDelete"}
ListOps == {"RequestServiceDeviceList", "FetchDeviceConfigs"}

Returned(op, arg, resp) ==
    CASE op = "RequestServiceInfo" -> RequestServiceInfo(arg, resp)
      [] op \in ListOps -> RequestServiceDeviceList(arg, resp)
      [] op = "ServiceCreate" -> ServiceCreate(arg, resp)
      [] op = "ServiceDelete" -> ServiceDelete(arg, resp)

\* The record kept of a REST operation.
RestRecord(op, arg, resp) ==
    [op |-> op, arg |-> arg, resp |-> resp, ret |-> Returned(op, arg, resp)]
NoRest == [op |-> "none"]

----------------------------------------------------------------------------
(* Session start and stop (src/service.go, lines 60-105, 188-197).         *)

NoRand == -1
NoResult == [svc |-> FALSE, err |-> "none"]

\* lines 60-67: s.node.ID + "-" + r.String()
genClientID(n, r) == n.ID \o "-" \o ToString(r)

\* The numbers CRAND.Int(CRAND.Reader, big.NewInt(100000)) can give, and the
\* least and the greatest of them, which the specification draws.
RandValues == 0..(clientIDRange - 1)
RandSample == {0, clientIDRange - 1}

\* Before any StartService.
SvcFresh ==
    /\ spc = "init"
    /\ sid = ""
    /\ node = ZeroNode
    /\ rnd = NoRand
    /\ clientID = ""
    /\ calls = <<>>
    /\ sres = NoResult
    /\ connected = FALSE
    /\ disconnects = 0
    /\ rest = NoRest

\* After StartService("svcA") has returned a Service.
Started ==
    LET resp == Response([StatusCode |-> httpStatusCodeOK, Status |-> "200 OK"],
                         Body("object", "svcA", 0))
    IN  /\ spc = "svc_ret"
        /\ sid = "svcA"
        /\ node = [ID |-> "svcA"]
        /\ rnd = 0
        /\ clientID = genClientID([ID |-> "svcA"], 0)
        /\ calls = <<"RequestServiceInfo", "Connect">>
        /\ sres = [svc |-> TRUE, err |-> NoErr]
        /\ connected = TRUE
        /\ disconnects = 0
        /\ rest = RestRecord("RequestServiceInfo", "svcA", resp)

----------------------------------------------------------------------------
(* The multiplexer's state after construction.                             *)

MuxInit ==
    /\ pc = "idle"
    /\ updates = NoChan
    /\ nchans = 0
    /\ chanBuf = [c \in Chans |-> <<>>]
    /\ closes = [c \in Chans |-> 0]
    /\ subscribed = [t \in Topics |-> FALSE]
    /\ err = NoErr
    /\ subLog = <<>>
    /\ unsubLog = <<>>
    /\ handle = NoChan
    /\ cb = [t \in Topics |-> IdleCb]
    /\ delivered = [t \in Topics |-> 0]
    /\ log = NoLog
    /\ recv = "none"
    /\ stopActive = FALSE
    /\ fault = NoFault

\* The multiplexer runs on a Service that StartService returned (see Started).
Init == MuxInit /\ Started

----------------------------------------------------------------------------
(* Broker session: Subscribe / Unsubscribe (lines 200-213).                *)

\* Service.Subscribe: the route exists once the broker has acknowledged.
Subscribe(subs, t, ok) == IF ok THEN [subs EXCEPT ![t] = TRUE] ELSE subs

\* Service.Unsubscribe: the route is gone once the broker has acknowledged.
Unsubscribe(subs, t, ok) == IF ok THEN [subs EXCEPT ![t] = FALSE] ELSE subs

\* close(c) on a channel value: the panic it raises, if any.
CloseFault(c) ==
    IF c = NoChan THEN "close of nil channel"
    ELSE IF Closed(c) THEN "close of closed channel"
    ELSE NoFault

\* close(c): the close counts afterwards.
CloseCounts(c) == IF c = NoChan THEN closes ELSE [closes EXCEPT ![c] = @ + 1]

\* The Unsubscribe calls of a sequence of topics, in order.
RECURSIVE UnsubscribeAll(_, _, _)
UnsubscribeAll(subs, undo, uok) ==
    IF undo = <<>> THEN subs
    ELSE UnsubscribeAll(Unsubscribe(subs, Head(undo), uok[Head(undo)]), Tail(undo), uok)

----------------------------------------------------------------------------
(* StartDeviceUpdates (lines 110-172).                                     *)

\* line 111: s.updates = make(chan DeviceUpdate, deviceUpdatesBuffering)
StartCall(from) ==
    /\ UNCHANGED svcVars
    /\ fault = NoFault
    /\ pc \in from
    /\ nchans < MaxStarts
    /\ nchans' = nchans + 1
    /\ updates' = nchans + 1
    /\ pc' = "sub_add"
    /\ err' = NoErr
    /\ subLog' = <<>>
    /\ unsubLog' = <<>>
    /\ stopActive' = FALSE
    /\ UNCHANGED <<chanBuf, closes, subscribed, handle, cb, delivered, log, recv,
                   fault>>

\* The topics each failure branch unsubscribes (none at line 129; 147; 165-166).
Undo(t) ==
    IF t = topicAdd THEN <<>>
    ELSE IF t = topicRem THEN <<topicAdd>>
    ELSE <<topicAdd, topicRem>>

\* Where the caller stands before, and goes after, the Subscribe of topic t.
SubPc(t) ==
    IF t = topicAdd THEN "sub_add" ELSE IF t = topicRem THEN "sub_rem" ELSE "sub_upd"
AfterSub(t) ==
    IF t = topicAdd THEN "sub_rem" ELSE IF t = topicRem THEN "sub_upd" ELSE "start_ret"

\* The value of s.updates after a failure branch: close(s.updates); s.updates = nil.
\* A panicking close leaves the field as it was.
AfterRollback(c) == IF CloseFault(c) = NoFault THEN NoChan ELSE c

\* One Subscribe of StartDeviceUpdates with the if-block that follows it
\* (lines 117-132, 134-150, 152-169), and after the third the return of
\* s.updates and err (line 171).
\* ok: the broker accepts the subscription; uok[u]: it acknowledges the
\* Unsubscribe of u issued by the failure branch.
SubscribeStep(t, ok, uok) ==
    /\ UNCHANGED svcVars
    /\ fault = NoFault
    /\ pc = SubPc(t)
    /\ subLog' = Append(subLog, <<t, ok>>)
    /\ err' = IF ok THEN NoErr ELSE SubscribeError
    /\ IF ok
         THEN /\ subscribed' = Subscribe(subscribed, t, TRUE)
              /\ UNCHANGED <<updates, closes, fault, unsubLog>>
         ELSE /\ subscribed' = UnsubscribeAll(subscribed, Undo(t), uok)
              /\ unsubLog' = unsubLog \o Undo(t)
              /\ fault' = CloseFault(updates)
              /\ closes' = CloseCounts(updates)
              /\ updates' = AfterRollback(updates)
    /\ pc' = IF fault' # NoFault THEN "panic" ELSE AfterSub(t)
    /\ handle' = IF pc' = "start_ret" THEN updates' ELSE handle
    /\ UNCHANGED <<nchans, chanBuf, stopActive, cb, delivered, log, recv>>

----------------------------------------------------------------------------
(* StopDeviceUpdates (lines 176-185).                                      *)

StopPc(t) ==
    IF t = topicAdd THEN "stop_call" ELSE IF t = topicRem THEN "unsub_rem" ELSE "unsub_upd"
\* Where the caller goes after the Unsubscribe of topic t: to the next
\* statement, whatever the call returned (the error is discarded).
AfterUnsubChecked(t, ok) ==
    IF ~ok THEN "stop_ret"
    ELSE IF t = topicAdd THEN "unsub_rem" ELSE IF t = topicRem THEN "unsub_upd" ELSE "stop_close"
AfterUnsub(t, ok) ==
    IF t = topicAdd THEN "unsub_rem" ELSE IF t = topicRem THEN "unsub_upd" ELSE "stop_close"

\* The multiplexer is Active: the three topics are subscribed and s.updates is open.
Active ==
    /\ \A t \in Topics : subscribed[t]
    /\ updates # NoChan
    /\ ~Closed(updates)

\* lines 181-183: s.Unsubscribe(topic), its error ignored.
StopUnsubscribe(t, ok) ==
    /\ UNCHANGED svcVars
    /\ fault = NoFault
    /\ IF t = topicAdd THEN pc \in Callable ELSE pc = StopPc(t)
    /\ pc' = AfterUnsub(t, ok)
    /\ unsubLog' = IF t = topicAdd THEN <<t>> ELSE Append(unsubLog, t)
    /\ stopActive' = IF t = topicAdd THEN Active ELSE stopActive
    /\ subscribed' = Unsubscribe(subscribed, t, ok)
    /\ err' = IF t = topicAdd THEN NoErr ELSE err
    /\ subLog' = IF t = topicAdd THEN <<>> ELSE subLog
    /\ UNCHANGED <<updates, nchans, chanBuf, closes, handle, cb, delivered, log,
                   recv, fault>>

\* line 184: close(s.updates)
StopCloseAfterHandlers ==
    /\ UNCHANGED svcVars
    /\ fault = NoFault
    /\ pc = "stop_close"
    /\ \A t \in Topics : cb[t].pc = "idle"
    /\ fault' = CloseFault(updates)
    /\ closes' = CloseCounts(updates)
    /\ pc' = IF fault' # NoFault THEN "panic" ELSE "stop_ret"
    /\ UNCHANGED <<updates, nchans, chanBuf, subscribed, err, subLog, unsubLog,
                   stopActive, handle, cb, delivered, log, recv>>
StopClose ==
    /\ UNCHANGED svcVars
    /\ fault = NoFault
    /\ pc = "stop_close"
    /\ fault' = CloseFault(updates)
    /\ closes' = CloseCounts(updates)
    /\ pc' = IF fault' # NoFault THEN "panic" ELSE "stop_ret"
    /\ UNCHANGED <<updates, nchans, chanBuf, subscribed, err, subLog, unsubLog,
                   stopActive, handle, cb, delivered, log, recv>>

----------------------------------------------------------------------------
(* The subscription callbacks (lines 117-128, 134-145, 152-163).           *)

\* json.Unmarshal(payload, &mqttMsg): a malformed payload gives an error and
\* leaves mqttMsg zero; a well-formed one gives the device record it wraps.
Unmarshal(payload) ==
    IF payload.valid THEN [err |-> FALSE, Thing |-> payload.n]
    ELSE [err |-> TRUE, Thing |-> 0]

\* DeviceUpdate{Type: ..., ServiceDeviceUpdate: mqttMsg.Thing}
DeviceUpdate(t, thing) == [Type |-> TypeOf(t), Thing |-> thing]

\* lines 120-123: the decode failed: log and return.
DropMalformedNoReturn(t, n) ==
    /\ log' = <<t, n>>
    /\ cb' = [cb EXCEPT ![t] = [pc |-> "send", ch |-> updates, msg |-> [Type |-> TypeOf(t), Thing |-> 0]]]
    /\ UNCHANGED delivered
DropMalformed(t, n) ==
    /\ log' = <<t, n>>
    /\ UNCHANGED <<cb, delivered>>

\* lines 118-124, run by the broker client for a payload of a subscribed topic
\* (lines 201-203): decode, return on a failure, else evaluate the operands of
\* the send statement; the channel is the value s.updates has now. The handler
\* then stands at the send. Well-formed payload n of topic t is the n-th
\* well-formed one delivered on t; a malformed one is logged with the number
\* of the well-formed one it came before.
\* The read of s.updates is not synchronised with the caller's writes (lines
\* 111, 131, 149, 168): it sees the value before or after a concurrent write,
\* which are the values it has in the interleavings of this step with the
\* caller's.
Handler(t, payload) ==
    IF Unmarshal(payload).err
      THEN DropMalformed(t, payload.n)
      ELSE /\ cb' = [cb EXCEPT ![t] = [pc |-> "send", ch |-> updates,
                                      msg |-> DeviceUpdate(t, Unmarshal(payload).Thing)]]
           /\ delivered' = [delivered EXCEPT ![t] = payload.n]
           /\ UNCHANGED log

\* The broker client delivers the next payload of topic t to its handler; the
\* handlers of one topic run one after the other.
Deliver(t, valid) ==
    /\ UNCHANGED svcVars
    /\ fault = NoFault
    /\ subscribed[t]
    /\ cb[t].pc = "idle"
    /\ Handler(t, [valid |-> valid, n |-> delivered[t] + 1])
    /\ UNCHANGED <<pc, updates, nchans, chanBuf, closes, subscribed, err, subLog,
                   unsubLog, stopActive, handle, recv, fault>>

\* The buffer of a channel after a send has put entry m into it.
EnqueueFront(buf, m) == <<m>> \o buf
Enqueue(buf, m) == Append(buf, m)

\* The send of handler t on the open channel c: blocked while the buffer
\* holds deviceUpdatesBuffering entries, else the entry is buffered and the
\* handler returns.
SendOrDrop(t, c) ==
    /\ cb' = [cb EXCEPT ![t] = IdleCb]
    /\ chanBuf' = IF Len(chanBuf[c]) < deviceUpdatesBuffering
                    THEN [chanBuf EXCEPT ![c] = Enqueue(@, cb[t].msg)]
                    ELSE chanBuf
SendOpen(t, c) ==
    /\ Len(chanBuf[c]) < deviceUpdatesBuffering
    /\ chanBuf' = [chanBuf EXCEPT ![c] = Enqueue(@, cb[t].msg)]
    /\ cb' = [cb EXCEPT ![t] = IdleCb]

\* lines 124-127: s.updates <- DeviceUpdate{...}. The send blocks for ever on
\* a nil channel and panics on a closed one.
Send(t) ==
    /\ UNCHANGED svcVars
    /\ fault = NoFault
    /\ cb[t].pc = "send"
    /\ cb[t].ch # NoChan
    /\ IF Closed(cb[t].ch)
         THEN /\ fault' = "send on closed channel"
              /\ UNCHANGED <<chanBuf, cb>>
         ELSE /\ SendOpen(t, cb[t].ch)
              /\ UNCHANGED fault
    /\ UNCHANGED <<pc, updates, nchans, closes, subscribed, err, subLog, unsubLog,
                   stopActive, handle, delivered, log, recv>>

----------------------------------------------------------------------------
(* The consumer of the channel StartDeviceUpdates returned.                *)

\* u, ok := <-handle: the oldest buffered entry; "closed" from a closed,
\* drained channel; blocked on an open empty one and on a nil one.
Receive ==
    /\ UNCHANGED svcVars
    /\ fault = NoFault
    /\ handle # NoChan
    /\ IF chanBuf[handle] # <<>>
         THEN /\ chanBuf' = [chanBuf EXCEPT ![handle] = Tail(@)]
              /\ recv' = "value"
         ELSE /\ Closed(handle)
              /\ recv' = "closed"
              /\ UNCHANGED chanBuf
    /\ UNCHANGED <<pc, updates, nchans, closes, subscribed, err, subLog, unsubLog,
                   stopActive, handle, cb, delivered, log, fault>>

----------------------------------------------------------------------------
(* Spec: any sequence of StartDeviceUpdates and StopDeviceUpdates calls,   *)
(* with at most MaxMsgs well-formed payloads delivered in all.             *)

Total == delivered[topicAdd] + delivered[topicRem] + delivered[topicUpd]

DeliverSome(t, valid) ==
    /\ valid => Total < MaxMsgs
    /\ Deliver(t, valid)

Next ==
    \/ StartCall(Callable)
    \/ \E t \in Topics, ok \in BOOLEAN, uok \in [Topics -> BOOLEAN] : SubscribeStep(t, ok, uok)
    \/ \E t \in Topics, ok \in BOOLEAN : StopUnsubscribe(t, ok)
    \/ StopClose
    \/ \E t \in Topics, valid \in BOOLEAN : DeliverSome(t, valid)
    \/ \E t \in Topics : Send(t)
    \/ Receive

Spec == Init /\ [][Next]_vars

----------------------------------------------------------------------------
(* BurstSpec: one session (StartDeviceUpdates as the first call, then      *)
(* possibly StopDeviceUpdates) against a broker that accepts every         *)
(* request, during which it delivers a burst on /thing/new large enough to *)
(* fill the channel and block the handler, and up to MaxBurst payloads on  *)
(* the other two topics together, all of them well-formed.                 *)

\* Well-formed payloads of topic t may still be delivered.
BurstLeft(t) ==
    IF t = topicAdd THEN delivered[topicAdd] < deviceUpdatesBuffering + MaxBurst
    ELSE delivered[topicRem] + delivered[topicUpd] < MaxBurst

DeliverBurst(t) ==
    /\ BurstLeft(t)
    /\ Deliver(t, TRUE)

\* The broker acknowledges every Unsubscribe.
Acked == [u \in Topics |-> TRUE]

BurstNext ==
    \/ StartCall({"idle"})
    \/ \E t \in Topics : SubscribeStep(t, TRUE, Acked)
    \/ \E t \in Topics : StopUnsubscribe(t, TRUE)
    \/ StopClose
    \/ \E t \in Topics : DeliverBurst(t)
    \/ \E t \in Topics : Send(t)
    \/ Receive

BurstSpec == Init /\ [][BurstNext]_vars

----------------------------------------------------------------------------
(* ActiveFair: the same session, never stopped: once Active the            *)
(* multiplexer stays Active. The consumer keeps receiving, and a handler   *)
(* whose send can proceed again and again does proceed (the run time       *)
(* wakes blocked senders in turn).                                         *)

ActiveNext ==
    \/ StartCall({"idle"})
    \/ \E t \in Topics : SubscribeStep(t, TRUE, Acked)
    \/ \E t \in Topics : DeliverBurst(t)
    \/ \E t \in Topics : Send(t)
    \/ Receive

ActiveFair ==
    /\ Init
    /\ [][ActiveNext]_vars
    /\ WF_vars(Receive)
    /\ \A t \in Topics : SF_vars(Send(t))

----------------------------------------------------------------------------
(* StopFair: the session of BurstSpec, in which every Unsubscribe is       *)
(* acknowledged, with a caller that goes on through StopDeviceUpdates once *)
(* it has called it. Nothing is assumed of the consumer or the handlers.   *)

StopFair ==
    /\ BurstSpec
    /\ WF_vars(\E t \in {topicRem, topicUpd} : StopUnsubscribe(t, TRUE))
    /\ WF_vars(StopClose)

----------------------------------------------------------------------------
(* StartService, StopService and the REST operations.                      *)

\* lines 71-82: s = new(Service); s.id = serviceID
StartServiceCall(serviceID) ==
    /\ spc \in {"init", "svc_ret"}
    /\ spc' = "svc_fetch"
    /\ sid' = serviceID
    /\ node' = ZeroNode
    /\ rnd' = NoRand
    /\ clientID' = ""
    /\ calls' = <<>>
    /\ sres' = NoResult
    /\ connected' = FALSE
    /\ disconnects' = 0
    /\ UNCHANGED rest
    /\ UNCHANGED muxVars

\* lines 85-87: if err != nil { return nil, err }
AfterFetchNoReturn(e) == "svc_connect"
AfterFetch(e) == IF e # NoErr THEN "svc_ret" ELSE "svc_connect"

\* lines 84-87: s.node, err = s.host.RequestServiceInfo(s.id)
FetchStep(resp) ==
    /\ spc = "svc_fetch"
    /\ rest' = RestRecord("RequestServiceInfo", sid, resp)
    /\ node' = rest'.ret.node
    /\ calls' = Append(calls, "RequestServiceInfo")
    /\ spc' = AfterFetch(rest'.ret.err)
    /\ sres' = IF rest'.ret.err # NoErr
               THEN [svc |-> FALSE, err |-> rest'.ret.err]
               ELSE sres
    /\ UNCHANGED <<sid, rnd, clientID, connected, disconnects>>
    /\ UNCHANGED muxVars

\* lines 89-104: the options with SetClientID(s.genClientID()), NewClient,
\* Connect. genClientID ends the process (log.Fatal) when the random source
\* fails (rok = FALSE).
ConnectStep(r, rok, ok) ==
    /\ spc = "svc_connect"
    /\ IF ~rok
       THEN /\ spc' = "aborted"
            /\ UNCHANGED <<rnd, clientID, calls, sres, connected>>
       ELSE /\ rnd' = r
            /\ clientID' = genClientID(node, r)
            /\ calls' = Append(calls, "Connect")
            /\ connected' = ok
            /\ sres' = IF ok THEN [svc |-> TRUE, err |-> NoErr]
                             ELSE [svc |-> FALSE, err |-> ConnectError]
            /\ spc' = "svc_ret"
    /\ UNCHANGED <<sid, node, disconnects, rest>>
    /\ UNCHANGED muxVars

\* lines 195-197: s.mqtt.Disconnect(0)
StopService ==
    /\ spc = "svc_ret"
    /\ sres.svc
    /\ disconnects < MaxStops
    /\ disconnects' = disconnects + 1
    /\ connected' = FALSE
    /\ UNCHANGED <<spc, sid, node, rnd, clientID, calls, sres, rest>>
    /\ UNCHANGED muxVars

\* One of the four operations of the REST client, called on the host.
HostCall(op, arg, resp) ==
    /\ spc \in {"init", "svc_ret"}
    /\ op \in HostOps
    /\ rest' = RestRecord(op, arg, resp)
    /\ UNCHANGED <<spc, sid, node, rnd, clientID, calls, sres, connected, disconnects>>
    /\ UNCHANGED muxVars

\* lines 188-192: return s.host.RequestServiceDeviceList(s.id)
FetchDeviceConfigs(resp) ==
    /\ spc = "svc_ret"
    /\ sres.svc
    /\ rest' = RestRecord("FetchDeviceConfigs", sid, resp)
    /\ UNCHANGED <<spc, sid, node, rnd, clientID, calls, sres, connected, disconnects>>
    /\ UNCHANGED muxVars

SvcInit == MuxInit /\ SvcFresh

ServiceNext ==
    \/ \E i \in ServiceIDs : StartServiceCall(i)
    \/ \E resp \in Responses : FetchStep(resp)
    \/ \E r \in RandSample, rok \in BOOLEAN, ok \in BOOLEAN : ConnectStep(r, rok, ok)
    \/ StopService
    \/ \E op \in HostOps, i \in ServiceIDs, resp \in Responses : HostCall(op, i, resp)
    \/ \E resp \in Responses : FetchDeviceConfigs(resp)

ServiceSpec == SvcInit /\ [][ServiceNext]_vars

----------------------------------------------------------------------------
(* Properties.                                                             *)

\* A Subscribe of the running/last StartDeviceUpdates was rejected.
SomeSubscribeFailed == \E i \in 1..Len(subLog) : ~subLog[i][2]

\* The channel made by the running/last StartDeviceUpdates.
Made == nchans

\* C1: if one of the three Subscribe attempts of StartDeviceUpdates failed,
\* the call returns a non-nil error.
C1_FailureIsReturned ==
    (pc = "start_ret" /\ SomeSubscribeFailed) => err # NoErr

\* C2: when a Subscribe attempt failed, then at the return of
\* StartDeviceUpdates no update topic is subscribed and the channel made by
\* this start is closed.
C2_NoPartialSubscription ==
    (pc = "start_ret" /\ SomeSubscribeFailed) =>
        /\ \A t \in Topics : ~subscribed[t]
        /\ Closed(Made)

\* C3: when the broker accepts the Subscribe of /thing/new and rejects that of
\* /thing/remove, the whole start makes exactly one Unsubscribe call, for
\* /thing/new, and ends with the channel it made closed.
C3_SecondRejected ==
    ( /\ pc \in {"start_ret", "panic"}
      /\ Len(subLog) >= 2
      /\ subLog[1] = <<topicAdd, TRUE>>
      /\ subLog[2] = <<topicRem, FALSE>> ) =>
        /\ unsubLog = <<topicAdd>>
        /\ Closed(Made)
        /\ fault = NoFault

\* C4: no handler sends on the channel after it has been closed.
C4_NoSendAfterClose == fault # "send on closed channel"

\* C5: no channel is closed more than once.
C5_ClosedOnce == \A c \in Chans : closes[c] <= 1

\* The Unsubscribe calls StopDeviceUpdates has made when the caller stands at p.
StopCallsAt(p) ==
    IF p = "unsub_rem" THEN <<topicAdd>>
    ELSE IF p = "unsub_upd" THEN <<topicAdd, topicRem>>
    ELSE <<topicAdd, topicRem, topicUpd>>

\* C6: StopDeviceUpdates called while Active makes exactly the three
\* Unsubscribe calls, in order and whatever each returns, closes the channel
\* only after them, and a receive on the drained channel then reports closed.
C6_StopUnsubscribesThenCloses ==
    /\ [](stopActive /\ pc \in {"unsub_rem", "unsub_upd", "stop_close"} =>
            /\ unsubLog = StopCallsAt(pc)
            /\ ~Closed(updates))
    /\ [](stopActive /\ pc = "stop_ret" =>
            /\ unsubLog = <<topicAdd, topicRem, topicUpd>>
            /\ handle = updates
            /\ Closed(handle))
    /\ [][(stopActive /\ pc = "stop_ret" /\ chanBuf[handle] = <<>> /\ Receive)
            => recv' = "closed"]_vars

\* C6 witness: a stop from Active has returned after an Unsubscribe failed, and
\* the consumer has drained the channel and been told it is closed.
C6_Witness ==
    /\ stopActive
    /\ pc = "stop_ret"
    /\ \E t \in Topics : subscribed[t]
    /\ delivered[topicAdd] >= 1
    /\ chanBuf[handle] = <<>>
    /\ recv = "closed"

\* C7: when StartDeviceUpdates returns no error the multiplexer is Active and
\* the returned handle is the open channel s.updates the handlers send on.
C7_SuccessIsActive ==
    (pc = "start_ret" /\ err = NoErr) =>
        /\ Active
        /\ handle # NoChan
        /\ handle = updates

\* A step that changes the buffer of channel c is a receive of its oldest
\* entry or the send of a handler that stood at its send on c.
BufferStep(c) ==
    \/ chanBuf[c] # <<>> /\ chanBuf'[c] = Tail(chanBuf[c])
    \/ \E t \in Topics :
          /\ cb[t].pc = "send"
          /\ cb[t].ch = c
          /\ cb'[t].pc = "idle"
          /\ chanBuf'[c] = Append(chanBuf[c], cb[t].msg)

\* C8: the channel never holds more than deviceUpdatesBuffering entries; a
\* handler that stands at its send leaves it only by putting its entry into
\* the channel, once (on a full channel it stays: nothing is discarded); and
\* while the multiplexer is Active and the consumer keeps receiving, every
\* handler at its send gets its entry in.
C8_Backpressure ==
    /\ [](\A c \in Chans : Len(chanBuf[c]) <= deviceUpdatesBuffering)
    /\ [][\A t \in Topics :
            (cb[t].pc = "send" /\ cb'[t] # cb[t]) =>
                /\ cb[t].ch # NoChan
                /\ chanBuf'[cb[t].ch] = Append(chanBuf[cb[t].ch], cb[t].msg)]_vars
    /\ [][\A c \in Chans : chanBuf'[c] # chanBuf[c] => BufferStep(c)]_vars
    /\ \A t \in Topics :
          (Active /\ cb[t].pc = "send") ~> (cb[t].pc = "idle" \/ ~Active)

\* C8 witness: the multiplexer is Active, the channel is full and the
\* handler of /thing/new is blocked at its send with one more update.
C8_Witness ==
    /\ Active
    /\ Len(chanBuf[updates]) = deviceUpdatesBuffering
    /\ cb[topicAdd].pc = "send"
    /\ cb[topicAdd].ch = updates
    /\ ~ENABLED Send(topicAdd)

\* C9: in every channel the entries of one topic stand in the order in which
\* the broker delivered them, and an entry still at its handler's send is
\* later than those of its topic already in the channel.
C9_PerTopicOrder ==
    \A c \in Chans :
        /\ \A i, j \in 1..Len(chanBuf[c]) :
              (i < j /\ chanBuf[c][i].Type = chanBuf[c][j].Type) =>
                  chanBuf[c][i].Thing < chanBuf[c][j].Thing
        /\ \A t \in Topics, i \in 1..Len(chanBuf[c]) :
              (cb[t].pc = "send" /\ cb[t].ch = c /\ chanBuf[c][i].Type = cb[t].msg.Type) =>
                  chanBuf[c][i].Thing < cb[t].msg.Thing

\* C9 witness: two updates of /thing/new stand in the channel with an update
\* of another topic between them.
C9_Witness ==
    \E i, j, k \in 1..Len(chanBuf[1]) :
        /\ i < j /\ j < k
        /\ chanBuf[1][i].Type = DeviceUpdateTypeAdd
        /\ chanBuf[1][j].Type # DeviceUpdateTypeAdd
        /\ chanBuf[1][k].Type = DeviceUpdateTypeAdd

\* C10: a payload that fails to decode adds no entry to any channel, raises no
\* fault, and leaves the subscription and the handler in place, so that the
\* next payload of the topic is handled.
C10_MalformedDropped ==
    [][log' # log =>
         /\ chanBuf' = chanBuf
         /\ fault' = NoFault
         /\ subscribed' = subscribed
         /\ cb' = cb
         /\ cb'[log'[1]].pc = "idle"
         /\ subscribed'[log'[1]]]_vars

\* C10 witness: after a malformed payload on a topic was dropped, a later
\* well-formed payload of the same topic is in the channel.
C10_Witness ==
    /\ log # NoLog
    /\ \E i \in 1..Len(chanBuf[1]) :
          /\ chanBuf[1][i].Type = TypeOf(log[1])
          /\ chanBuf[1][i].Thing >= log[2]

\* The update-kind of each topic: Add for /thing/new, Remove for
\* /thing/remove, Modify for /thing/update.
KindOf(t) ==
    CASE t = topicAdd -> DeviceUpdateTypeAdd
      [] t = topicRem -> DeviceUpdateTypeRem
      [] t = topicUpd -> DeviceUpdateTypeUpd

\* C11: a REST operation whose response has a status other than OK returns
\* an error that is the status of the response, and has not run the JSON
\* decoder on the body.
C11_StatusErrorNoDecode ==
    (/\ rest.op \in HostOps
     /\ rest.resp.sent
     /\ rest.resp.StatusCode # httpStatusCodeOK)
        => /\ rest.ret.err = rest.resp.Status
           /\ ~rest.ret.decoded

\* C11 witness: ServiceCreate answered 404 with a body that would decode.
C11_Witness ==
    /\ rest.op = "ServiceCreate"
    /\ rest.resp.sent
    /\ rest.resp.StatusCode = 404
    /\ rest.resp.Body = Body("object", "svcA", 0)
    /\ rest.ret = [node |-> ZeroNode, err |-> "404 Not Found", decoded |-> FALSE]

\* C12: the list RequestServiceDeviceList and FetchDeviceConfigs return is
\* never nil.
C12_NeverNilList == rest.op \in ListOps => ~rest.ret.list.isNil

\* C13: Disconnect is invoked at most once on the connection of a Service.
C13_DisconnectOnce == disconnects <= 1

\* C14: a client ID that was generated is the ID StartService was called
\* with, "-", and a number r with 0 <= r < 100000.
C14_ClientIDOfServiceID ==
    clientID # "" =>
        /\ rnd >= 0
        /\ rnd < clientIDRange
        /\ clientID = sid \o "-" \o ToString(rnd)

\* C16: a StartService makes at most one RequestServiceInfo and then at most
\* one Connect; a failed RequestServiceInfo ends it with that error, no
\* Service and no Connect; a failed Connect ends it with the connect error
\* and no Service.
C16_OneFetchOneConnect ==
    /\ [](calls \in {<<>>, <<"RequestServiceInfo">>, <<"RequestServiceInfo", "Connect">>})
    /\ []((spc = "svc_ret" /\ ~sres.svc) =>
            \/ /\ calls = <<"RequestServiceInfo">>
               /\ sres.err \notin {NoErr, ConnectError}
               /\ clientID = ""
               /\ ~connected
            \/ /\ calls = <<"RequestServiceInfo", "Connect">>
               /\ sres.err = ConnectError
               /\ ~connected)
    /\ []((spc = "svc_ret" /\ sres.svc) =>
            /\ calls = <<"RequestServiceInfo", "Connect">>
            /\ sres.err = NoErr)
    /\ [][(spc = "svc_fetch" /\ spc' # "svc_fetch" /\ rest'.ret.err # NoErr) =>
            /\ spc' = "svc_ret"
            /\ calls' = <<"RequestServiceInfo">>
            /\ sres' = [svc |-> FALSE, err |-> rest'.ret.err]]_vars

\* C16 witness: StartService has returned the 404 of its descriptor fetch.
C16_Witness ==
    /\ spc = "svc_ret"
    /\ calls = <<"RequestServiceInfo">>
    /\ sres = [svc |-> FALSE, err |-> "404 Not Found"]
    /\ rest.op = "RequestServiceInfo"

\* C15: an update decoded by the handler of topic t carries the kind of t and
\* the device record of the payload (the last one delivered on t); every
\* entry of a channel carries one of the three kinds and a device record
\* delivered on the topic of its kind; and an entry enters a channel as the
\* update its handler holds.
C15_KindOfTopic ==
    /\ [](\A t \in Topics : cb[t].pc = "send" =>
            /\ cb[t].msg.Type = KindOf(t)
            /\ cb[t].msg.Thing = delivered[t])
    /\ [](\A c \in Chans : \A i \in 1..Len(chanBuf[c]) :
            \E t \in Topics :
                /\ chanBuf[c][i].Type = KindOf(t)
                /\ chanBuf[c][i].Thing \in 1..delivered[t])
    /\ [][\A c \in Chans :
            Len(chanBuf'[c]) > Len(chanBuf[c]) =>
                \E t \in Topics :
                    /\ cb[t].pc = "send"
                    /\ chanBuf'[c][Len(chanBuf'[c])] = [Type |-> KindOf(t), Thing |-> cb[t].msg.Thing]]_vars

\* C15 witness: an update that arrived on /thing/update stands in the channel
\* with kind Modify.
C15_Witness ==
    /\ delivered[topicUpd] = 1
    /\ delivered[topicAdd] = 0
    /\ delivered[topicRem] = 0
    /\ chanBuf[1] = <<[Type |-> DeviceUpdateTypeUpd, Thing |-> 1]>>

\* C17: StartDeviceUpdates raises no run-time fault, whatever the outcomes of
\* its Subscribe attempts.
C17_StartNoFault == ~(fault # NoFault /\ pc = "panic" /\ subLog # <<>>)

\* C18: once a Subscribe attempt of StartDeviceUpdates has failed, the call
\* issues no further Subscribe.
C18_StopAtFirstFailure ==
    \A i \in 1..Len(subLog) : i < Len(subLog) => subLog[i][2]

\* The caller is inside a StopDeviceUpdates it called while Active.
Stopping == stopActive /\ pc \in {"unsub_rem", "unsub_upd", "stop_close"}

\* C19: a StopDeviceUpdates called while Active, its Unsubscribe requests
\* acknowledged, returns with the channel closed, also when the channel is
\* full, the consumer receives no more and handlers are blocked at their send.
C19_StopReturns ==
    /\ Stopping ~> (pc = "stop_ret" /\ Closed(updates))
    /\ [](Stopping => fault = NoFault)

\* C19 witness: the stop has returned with the channel closed while the
\* channel is full and the handler of /thing/new still stands at its send.
C19_Witness ==
    /\ stopActive
    /\ pc = "stop_ret"
    /\ Closed(updates)
    /\ Len(chanBuf[updates]) = deviceUpdatesBuffering
    /\ cb[topicAdd].pc = "send"
    /\ fault = NoFault

====
